---------------------------- MODULE Spec2Model ----------------------------
(***************************************************************************)
(* Model of the timezone conversion server: the validators of types.ts,    *)
(* TimezoneServer.convertTime of index.ts and the parts of the luxon       *)
(* DateTime API that convertTime calls (DateTime.now, fromObject, minus,   *)
(* plus, setZone, toFormat, isInDST, offset), over an excerpt of the IANA  *)
(* zone database for the year 2024; the HTTP transport of index.ts, for    *)
(* one request and for several requests in flight; and the MCP tool        *)
(* handler of build/index.js.                                              *)
(*                                                                         *)
(* Strings are sequences of one-character strings, so that the regular     *)
(* expression, String.split, Number and the formatters are modelled by     *)
(* what they do to the characters.  Instants are minutes since             *)
(* 2024-01-01T00:00Z; offsets are minutes east of UTC, as in luxon.        *)
(***************************************************************************)
EXTENDS Integers, Sequences, FiniteSets, TLC

VARIABLES
    now,        \* the wall clock: the instant DateTime.now() returns
    sysZone,    \* the zone of the process (luxon's default zone)
    args,       \* the argument of the last convertTime call
    outcome,    \* how the last convertTime call ended
    console,    \* what console.error has written so far (number of lines)
    probe,      \* the string handed to a validator called on its own
    verdict,    \* what that validator returned: "none", "true" or "false"
    request,    \* the HTTP request that handleRequest is answering
    response,   \* the HTTP response written for it: status and body
    toolCall,   \* the MCP tools/call request that the tool handler is serving
    toolReply,  \* what the tool handler returned or threw for it
    conns       \* the HTTP requests in flight, one record per connection

vars ==
    <<now, sysZone, args, outcome, console, probe, verdict, request, response,
      toolCall, toolReply, conns>>

\* the variables of the MCP tool handler and of the requests in flight
others == <<toolCall, toolReply, conns>>

-----------------------------------------------------------------------------
(* Characters and strings *)

Digits == <<"0", "1", "2", "3", "4", "5", "6", "7", "8", "9">>

IsDigit(c) == \E i \in 1..10 : Digits[i] = c

DigitVal(c) == (CHOOSE i \in 1..10 : Digits[i] = c) - 1

DigitChar(n) == Digits[n + 1]

\* c is in the character class [lo-hi] of decimal digits
InClass(c, lo, hi) == IsDigit(c) /\ DigitVal(c) >= lo /\ DigitVal(c) <= hi

\* Number(s) for a string of decimal digits
RECURSIVE ToNumber(_)
ToNumber(s) ==
    IF Len(s) = 0 THEN 0
    ELSE 10 * ToNumber(SubSeq(s, 1, Len(s) - 1)) + DigitVal(s[Len(s)])

\* padStart(n, 2): two decimal digits
Pad2(n) == <<DigitChar((n \div 10) % 10), DigitChar(n % 10)>>

\* String.prototype.toLowerCase, on the capitals the model's strings use
LowerChar(c) ==
    CASE c = "A" -> "a" [] c = "C" -> "c" [] c = "G" -> "g" [] c = "I" -> "i"
      [] c = "M" -> "m" [] c = "N" -> "n" [] c = "P" -> "p" [] c = "T" -> "t"
      [] c = "U" -> "u" [] c = "Y" -> "y" [] OTHER -> c

toLowerCase(s) == [i \in 1..Len(s) |-> LowerChar(s[i])]

\* the positions of character c in s
Positions(s, c) == {i \in 1..Len(s) : s[i] = c}

Min(a, b) == IF a < b THEN a ELSE b
Max(a, b) == IF a > b THEN a ELSE b

-----------------------------------------------------------------------------
(* JavaScript values of a request's fields.  A field of a parsed JSON body  *)
(* is not always a string: "arr" is an array holding one string (String()  *)
(* of it is that string, and it has no split method), "obj" is an object   *)
(* whose toString and valueOf are not callable, so that converting it to a *)
(* string raises a TypeError.                                              *)

Str(s) == [t |-> "str", s |-> s]
Arr(s) == [t |-> "arr", s |-> s]
Obj == [t |-> "obj", s |-> <<>>]

\* whether String(v) completes, and the string it gives
CanToString(v) == v.t # "obj"
StringOf(v) == v.s

-----------------------------------------------------------------------------
(* Zone identifiers *)

tzNewYork == <<"A", "m", "e", "r", "i", "c", "a", "/", "N", "e", "w", "_", "Y", "o", "r", "k">>
tzTokyo == <<"A", "s", "i", "a", "/", "T", "o", "k", "y", "o">>
tzTroll == <<"A", "n", "t", "a", "r", "c", "t", "i", "c", "a", "/", "T", "r", "o", "l", "l">>
tzCasablanca == <<"A", "f", "r", "i", "c", "a", "/", "C", "a", "s", "a", "b", "l", "a", "n", "c", "a">>
tzUTC == <<"U", "T", "C">>
tzInvalid == <<"I", "n", "v", "a", "l", "i", "d", "/", "T", "i", "m", "e", "z", "o", "n", "e">>
tzUtcPlus5 == <<"U", "T", "C", "+", "5">>
tzLowerNewYork == <<"a", "m", "e", "r", "i", "c", "a", "/", "n", "e", "w", "_", "y", "o", "r", "k">>
tzLocal == <<"l", "o", "c", "a", "l">>
tzGMT == <<"G", "M", "T">>
tzUtcMinus0730 == <<"U", "T", "C", "-", "0", "7", ":", "3", "0">>
tzNewYorkSpace == <<"A", "m", "e", "r", "i", "c", "a", "/", "N", "e", "w", "_", "Y", "o", "r", "k", " ">>

-----------------------------------------------------------------------------
(* The zone database: the rules of the year 2024 of the zones the model    *)
(* uses, as the platform's Intl data gives them to luxon.                  *)

MinutesPerDay == 24 * 60

\* the lengths of the months of 2024
MonthDays == <<31, 29, 31, 30, 31, 30, 31, 31, 30, 31, 30, 31>>

RECURSIVE DaysBefore(_)
DaysBefore(month) ==
    IF month = 1 THEN 0 ELSE DaysBefore(month - 1) + MonthDays[month - 1]

\* the number of the day month/day of 2024, January 1 being day 0
DayOfYear(month, day) == DaysBefore(month) + day - 1

\* the instant h:m UTC on month/day of 2024, in minutes
At(month, day, h, m) == DayOfYear(month, day) * MinutesPerDay + h * 60 + m

IanaNames == {tzNewYork, tzTokyo, tzTroll, tzCasablanca, tzUTC, tzGMT}

\* a zone's offsets: the offset at the start of the year, then each
\* transition as <<instant, offset from then on>>
ZoneRulesOf(name) ==
    CASE name = tzNewYork ->
           <<  <<At(1, 1, 0, 0), -300>>,
               <<At(3, 10, 7, 0), -240>>,    \* 02:00 EST -> 03:00 EDT
               <<At(11, 3, 6, 0), -300>>  >> \* 02:00 EDT -> 01:00 EST
      [] name = tzTroll ->
           <<  <<At(1, 1, 0, 0), 0>>,
               <<At(3, 31, 1, 0), 120>>,     \* 01:00 +00:00 -> 03:00 +02:00
               <<At(10, 27, 1, 0), 0>>  >>   \* 03:00 +02:00 -> 01:00 +00:00
      [] name = tzCasablanca ->
           <<  <<At(1, 1, 0, 0), 60>>,
               <<At(3, 10, 2, 0), 0>>,       \* 03:00 +01:00 -> 02:00 +00:00
               <<At(4, 14, 2, 0), 60>>  >>   \* 02:00 +00:00 -> 03:00 +01:00
      [] name = tzTokyo -> <<  <<At(1, 1, 0, 0), 540>>  >>
      [] OTHER -> <<  <<At(1, 1, 0, 0), 0>>  >>

\* the database, read once when the process starts
ZoneRules == [name \in IanaNames |-> ZoneRulesOf(name)]

\* the offset the rules give at instant ts
RuleOffset(rules, ts) ==
    LET past == {i \in 1..Len(rules) : rules[i][1] <= ts}
    IN  IF past = {} THEN rules[1][2]
        ELSE rules[CHOOSE i \in past : \A j \in past : j <= i][2]

\* IANAZone.isValidZone: Intl accepts the names of the database, in any case
LoweredNames == [name \in IanaNames |-> toLowerCase(name)]

-----------------------------------------------------------------------------
(* luxon zones *)

SystemZone == [type |-> "system", fixed |-> 0, name |-> <<>>]
FixedOffsetZone(offset) == [type |-> "fixed", fixed |-> offset, name |-> <<>>]
\* IANAZone.create(name): the zone keeps whether Intl knows the name
\* (IANAZone.isValidZone) and the database's spelling of it
IANAZone(name) ==
    LET lowered == toLowerCase(name)
        known == {n \in IanaNames : LoweredNames[n] = lowered}
    IN  IF Len(name) > 0 /\ known # {}
        THEN [type |-> "iana", fixed |-> 0, name |-> CHOOSE n \in known : TRUE]
        ELSE [type |-> "iana", fixed |-> 0, name |-> <<>>]
InvalidZone == [type |-> "invalid", fixed |-> 0, name |-> <<>>]

\* luxon's signedOffset(offHourStr, offMinuteStr), the hour string signed
signedOffset(sign, hourDigits, minuteDigits) ==
    LET offHour == ToNumber(hourDigits)
        offMin == ToNumber(minuteDigits)
    IN  IF sign = "-" THEN 0 - (offHour * 60 + offMin)
        ELSE offHour * 60 + offMin

\* FixedOffsetZone.parseSpecifier's /^utc(?:([+-]\d{1,2})(?::(\d{2}))?)?$/i
\* on the lowered string: whether it matches, and the zone it then gives
MatchesSpecifier(s) ==
    /\ Len(s) >= 3
    /\ SubSeq(s, 1, 3) = <<"u", "t", "c">>
    /\ LET r == SubSeq(s, 4, Len(s))
           colon == Positions(r, ":")
           h == IF colon = {} THEN SubSeq(r, 2, Len(r))
                ELSE SubSeq(r, 2, (CHOOSE i \in colon : TRUE) - 1)
           m == IF colon = {} THEN <<>>
                ELSE SubSeq(r, (CHOOSE i \in colon : TRUE) + 1, Len(r))
       IN  \/ Len(r) = 0
           \/ /\ Len(r) >= 2
              /\ r[1] \in {"+", "-"}
              /\ Cardinality(colon) <= 1
              /\ Len(h) \in {1, 2}
              /\ \A i \in 1..Len(h) : IsDigit(h[i])
              /\ colon # {} => Len(m) = 2
              /\ \A i \in 1..Len(m) : IsDigit(m[i])

parseSpecifier(s) ==
    LET r == SubSeq(s, 4, Len(s))
        colon == Positions(r, ":")
        h == IF colon = {} THEN SubSeq(r, 2, Len(r))
             ELSE SubSeq(r, 2, (CHOOSE i \in colon : TRUE) - 1)
        m == IF colon = {} THEN <<>>
             ELSE SubSeq(r, (CHOOSE i \in colon : TRUE) + 1, Len(r))
    IN  IF Len(r) = 0 THEN FixedOffsetZone(0)
        ELSE FixedOffsetZone(signedOffset(r[1], h, m))

\* a normalizeZone that has no case for "utc" and "gmt" and gives the
\* default zone for them
normalizeZoneUtcAsDefault(v) ==
    IF v.t # "str" THEN InvalidZone
    ELSE IF toLowerCase(v.s)
              \in {<<"l", "o", "c", "a", "l">>, <<"u", "t", "c">>, <<"g", "m", "t">>}
         THEN SystemZone
    ELSE IF MatchesSpecifier(toLowerCase(v.s))
         THEN parseSpecifier(toLowerCase(v.s))
    ELSE IANAZone(v.s)

\* luxon's normalizeZone(input, defaultZone) for a string, an array or an
\* object of a JSON body
normalizeZone(v) ==
    IF v.t # "str" THEN InvalidZone
    ELSE LET lowered == toLowerCase(v.s)
         IN  IF lowered = <<"l", "o", "c", "a", "l">> THEN SystemZone
             ELSE IF lowered \in {<<"u", "t", "c">>, <<"g", "m", "t">>}
                  THEN FixedOffsetZone(0)
             ELSE IF MatchesSpecifier(lowered) THEN parseSpecifier(lowered)
             ELSE IANAZone(v.s)

\* Zone.isValid
zoneIsValid(zone) ==
    CASE zone.type = "invalid" -> FALSE
      [] zone.type = "iana" -> zone.name # <<>>
      [] OTHER -> TRUE

\* Zone.offset(ts), in minutes; the system zone is the process's zone
zoneOffset(zone, ts) ==
    CASE zone.type = "fixed" -> zone.fixed
      [] zone.type = "iana" -> RuleOffset(ZoneRules[zone.name], ts)
      [] zone.type = "system" -> RuleOffset(ZoneRules[sysZone], ts)
      [] OTHER -> 0

\* Zone.isUniversal: the offset never changes
isOffsetFixed(zone) == zone.type = "fixed"

-----------------------------------------------------------------------------
(* luxon DateTime: an instant ts, a zone and the zone's offset o at ts     *)

DateTime(ts, zone, o) == [ts |-> ts, zone |-> zone, o |-> o, valid |-> TRUE]
InvalidDateTime == [ts |-> 0, zone |-> InvalidZone, o |-> 0, valid |-> FALSE]

\* DateTime.now() and DateTime.local(): the clock, in the process's zone
DateTimeNow == DateTime(now, SystemZone, zoneOffset(SystemZone, now))

\* the civil fields of a DateTime (luxon's tsToObj): the day of the year,
\* the hour and the minute of ts shifted by o
dtDay(dt) == (dt.ts + dt.o) \div MinutesPerDay
dtHour(dt) == ((dt.ts + dt.o) % MinutesPerDay) \div 60
dtMinute(dt) == (dt.ts + dt.o) % 60

\* luxon's objToLocalTS: the civil fields read as if they were UTC
objToLocalTS(day, hour, minute) == day * MinutesPerDay + hour * 60 + minute

\* luxon's fixOffset(localTS, o, tz): the instant and offset of a civil time
\* in zone tz, starting from the guess o for the offset
fixOffset(localTS, o, tz) ==
    LET utcGuess == localTS - o
        o2 == zoneOffset(tz, utcGuess)
        utcGuess2 == utcGuess - (o2 - o)
        o3 == zoneOffset(tz, utcGuess2)
    IN  IF o = o2 THEN <<utcGuess, o>>
        ELSE IF o2 = o3 THEN <<utcGuess2, o2>>
        \* a hole time: the civil time does not exist, the time is not adjusted
        ELSE <<localTS - Min(o2, o3), Max(o2, o3)>>

\* DateTime.fromObject without its {zone} option: the civil time is read in
\* the process's zone
fromObjectDefaultZone(day, hour, minute, zoneValue) ==
    LET inRange == hour \in 0..23 /\ minute \in 0..59
        fixed == fixOffset(objToLocalTS(day, hour, minute),
                           zoneOffset(SystemZone, now), SystemZone)
    IN  IF ~inRange THEN InvalidDateTime
        ELSE DateTime(fixed[1], SystemZone, fixed[2])

\* DateTime.fromObject({year, month, day, hour, minute, second: 0,
\* millisecond: 0}, {zone}); the offset is first guessed as the zone's
\* offset at the current instant
fromObject(day, hour, minute, zoneValue) ==
    LET zoneToUse == normalizeZone(zoneValue)
        offsetProvisional == zoneOffset(zoneToUse, now)
        inRange == hour \in 0..23 /\ minute \in 0..59
        fixed == fixOffset(objToLocalTS(day, hour, minute), offsetProvisional, zoneToUse)
    IN  IF ~zoneIsValid(zoneToUse) \/ ~inRange THEN InvalidDateTime
        ELSE DateTime(fixed[1], zoneToUse, fixed[2])

\* DateTime#setZone(zone)
setZone(dt, zoneValue) ==
    LET zone == normalizeZone(zoneValue)
    IN  IF zone = dt.zone THEN dt
        ELSE IF ~zoneIsValid(zone) THEN InvalidDateTime
        ELSE DateTime(dt.ts, zone, zoneOffset(zone, dt.ts))

\* DateTime#plus({hours}) and #minus({hours}): hours move the instant, and
\* the offset is read again at the new instant
plusHours(dt, hours) ==
    DateTime(dt.ts + 60 * hours, dt.zone, zoneOffset(dt.zone, dt.ts + 60 * hours))

minusHours(dt, hours) == plusHours(dt, 0 - hours)

\* DateTime#set({month, day}): the civil date replaced, the time of day kept
setDate(dt, month, day) ==
    LET fixed == fixOffset(
            objToLocalTS(DayOfYear(month, day), dtHour(dt), dtMinute(dt)),
            dt.o, dt.zone)
    IN  DateTime(fixed[1], dt.zone, fixed[2])

\* DateTime#isInDST: the offset is greater than the offset on January 1 or
\* than the offset in May of the same year (set({month: 5}) keeps the day of
\* the month; the model's zones have one offset throughout May)
isInDST(dt) ==
    IF isOffsetFixed(dt.zone) THEN FALSE
    ELSE \/ dt.o > setDate(dt, 1, 1).o
         \/ dt.o > setDate(dt, 5, 15).o

\* the format 'H:mm': the hour not padded
toFormatHmm(dt) ==
    (IF dtHour(dt) < 10 THEN <<DigitChar(dtHour(dt))>> ELSE Pad2(dtHour(dt)))
    \o <<":">> \o Pad2(dtMinute(dt))

\* DateTime#toFormat('HH:mm')
toFormatHHmm(dt) == Pad2(dtHour(dt)) \o <<":">> \o Pad2(dtMinute(dt))

\* the format 'ZZZ': the offset as +HHMM or -HHMM, without the colon
toFormatZZZ(dt) ==
    <<IF dt.o >= 0 THEN "+" ELSE "-">>
    \o Pad2((IF dt.o < 0 THEN 0 - dt.o ELSE dt.o) \div 60)
    \o Pad2((IF dt.o < 0 THEN 0 - dt.o ELSE dt.o) % 60)

\* DateTime#toFormat('ZZ'): the offset as +HH:MM or -HH:MM
toFormatZZ(dt) ==
    LET abs == IF dt.o < 0 THEN 0 - dt.o ELSE dt.o
    IN  <<IF dt.o >= 0 THEN "+" ELSE "-">> \o Pad2(abs \div 60) \o <<":">>
        \o Pad2(abs % 60)

-----------------------------------------------------------------------------
(* types.ts: the validators *)

\* an hour alternative [0-2]?[0-9]: any digit after a 2
MatchesHourAnyDigit(h) ==
    \/ Len(h) = 1 /\ InClass(h[1], 0, 9)
    \/ Len(h) = 2 /\ InClass(h[1], 0, 2) /\ InClass(h[2], 0, 9)

\* the hour alternative ([0-1]?[0-9]|2[0-3]) matches all of h
MatchesHour(h) ==
    \/ Len(h) = 1 /\ InClass(h[1], 0, 9)
    \/ Len(h) = 2 /\ InClass(h[1], 0, 1) /\ InClass(h[2], 0, 9)
    \/ Len(h) = 2 /\ h[1] = "2" /\ InClass(h[2], 0, 3)

\* /^([0-1]?[0-9]|2[0-3]):[0-5][0-9]$/.test(s)
timeRegexTest(s) ==
    \E k \in 1..2 :
        /\ Len(s) = k + 3
        /\ MatchesHour(SubSeq(s, 1, k))
        /\ s[k + 1] = ":"
        /\ InClass(s[k + 2], 0, 5)
        /\ InClass(s[k + 3], 0, 9)

\* validateTimeFormat(time), for a time whose string conversion completes
validateTimeFormat(time) == timeRegexTest(StringOf(time))

\* validateTimezone(timezone): DateTime.local().setZone(timezone).isValid
validateTimezone(timezone) == setZone(DateTimeNow, timezone).valid

\* time.split(':').map(Number): the numbers between the colons
RECURSIVE splitNumbers(_)
splitNumbers(s) ==
    LET colon == Positions(s, ":")
        first == CHOOSE i \in colon : \A j \in colon : i <= j
    IN  IF colon = {} THEN <<ToNumber(s)>>
        ELSE <<ToNumber(SubSeq(s, 1, first - 1))>>
             \o splitNumbers(SubSeq(s, first + 1, Len(s)))

-----------------------------------------------------------------------------
(* index.ts: TimezoneServer.convertTime.  The call is synchronous (no      *)
(* await inside), so it is one step; what the step did is kept as a record *)
(* of how it ended, the library calls it made in order, the instants it    *)
(* built and the lines it wrote with console.error.                        *)

Undefined == [t |-> "undefined", s |-> <<>>]

\* a details object whose timezone entry holds the time and whose time entry
\* holds the zone
DetailsExchanged(keys, timezone, time, text) ==
    [keys |-> keys, timezone |-> time, time |-> timezone, text |-> text]

\* the details object of a ConversionError: its keys, and the values the
\* model reads
Details(keys, timezone, time, text) ==
    [keys |-> keys, timezone |-> timezone, time |-> time, text |-> text]

NoDetails == Details({}, Undefined, Undefined, "")

NoResult ==
    [converted_time |-> <<>>,
     source |-> [time |-> Undefined, timezone |-> Undefined,
                 offset |-> <<>>, isDST |-> FALSE],
     target |-> [time |-> <<>>, timezone |-> Undefined,
                 offset |-> <<>>, isDST |-> FALSE]]

\* what a call has done so far
Trace(calls, sourceTime, beforeTime, afterTime, targetTime) ==
    [calls |-> calls, sourceTime |-> sourceTime, beforeTime |-> beforeTime,
     afterTime |-> afterTime, targetTime |-> targetTime]

\* throw new ConversionError(type, message, details)
ThrowConversionError(type, message, details, trace, logged) ==
    [kind |-> "ConversionError", type |-> type, message |-> message,
     details |-> details, result |-> NoResult, trace |-> trace,
     logged |-> logged]

\* a TypeError raised by the runtime leaves the call as it is
ThrowTypeError(text, trace) ==
    [kind |-> "TypeError", type |-> "none", message |-> <<text, <<>>>>,
     details |-> NoDetails, result |-> NoResult, trace |-> trace,
     logged |-> 0]

Return(result, trace) ==
    [kind |-> "result", type |-> "none", message |-> <<"", <<>>>>,
     details |-> NoDetails, result |-> result, trace |-> trace,
     logged |-> 0]

\* the catch block of convertTime for an error that is no ConversionError:
\* console.error, then SYSTEM_ERROR with the error's message as details
CatchUnexpected(text, trace) ==
    ThrowConversionError("SYSTEM_ERROR",
        <<"An unexpected error occurred during time conversion", <<>>>>,
        Details({"error"}, Undefined, Undefined, text), trace, 1)

\* a DST check that compares the offsets of the neighbours and not their
\* daylight-saving flags
dstTransitionByOffset(beforeTime, afterTime) ==
    beforeTime.o # afterTime.o

\* the DST check of convertTime on the neighbours of the source instant
dstTransition(beforeTime, afterTime) ==
    /\ isInDST(beforeTime) # isInDST(afterTime)
    /\ beforeTime.o # afterTime.o

\* a return statement whose source.time is the formatted source instant
convertTimeResultFormattedSource(a, calls, sourceTime, beforeTime, afterTime, targetTime) ==
    Return(
        [converted_time |-> toFormatHHmm(targetTime),
         source |-> [time |-> Str(toFormatHHmm(sourceTime)),
                     timezone |-> a.from_timezone,
                     offset |-> toFormatZZ(sourceTime),
                     isDST |-> isInDST(sourceTime)],
         target |-> [time |-> toFormatHHmm(targetTime),
                     timezone |-> a.to_timezone,
                     offset |-> toFormatZZ(targetTime),
                     isDST |-> isInDST(targetTime)]],
        Trace(calls \o <<"toFormat">>, sourceTime, beforeTime, afterTime,
              targetTime))

\* convertTime from its return statement on (lines 216-231)
convertTimeResult(a, calls, sourceTime, beforeTime, afterTime, targetTime) ==
    Return(
        [converted_time |-> toFormatHHmm(targetTime),
         source |-> [time |-> a.time,
                     timezone |-> a.from_timezone,
                     offset |-> toFormatZZ(sourceTime),
                     isDST |-> isInDST(sourceTime)],
         target |-> [time |-> toFormatHHmm(targetTime),
                     timezone |-> a.to_timezone,
                     offset |-> toFormatZZ(targetTime),
                     isDST |-> isInDST(targetTime)]],
        Trace(calls \o <<"toFormat">>, sourceTime, beforeTime, afterTime,
              targetTime))

\* convertTime once targetTime is built (lines 205-231)
convertTimeFromSetZone(a, calls, sourceTime, beforeTime, afterTime, targetTime) ==
    IF ~targetTime.valid
    THEN ThrowConversionError("CONVERSION_FAILED",
             <<"Failed to convert to target timezone", <<>>>>,
             Details({"reason", "invalidExplanation"}, Undefined, Undefined, ""),
             Trace(calls, sourceTime, beforeTime, afterTime, targetTime), 0)
    ELSE convertTimeResult(a, calls, sourceTime, beforeTime, afterTime,
                           targetTime)

\* a convertTime without its DST check: the neighbours are built and not
\* compared
convertTimeNoDstCheck(a, calls, sourceTime, beforeTime, afterTime) ==
    convertTimeFromSetZone(a, calls \o <<"setZone">>, sourceTime,
        beforeTime, afterTime, setZone(sourceTime, a.to_timezone))

\* convertTime once the neighbours of sourceTime are built (lines 186-231)
convertTimeFromProbe(a, calls, sourceTime, beforeTime, afterTime) ==
    IF dstTransition(beforeTime, afterTime)
    THEN ThrowConversionError("SKIPPED_TIME",
             <<"This time does not exist due to daylight saving time transition",
               <<>>>>,
             Details({"time", "timezone", "transition", "before", "after"},
                     a.from_timezone, a.time, "DST"),
             Trace(calls, sourceTime, beforeTime, afterTime, InvalidDateTime),
             0)
    ELSE convertTimeFromSetZone(a, calls \o <<"setZone">>, sourceTime,
             beforeTime, afterTime, setZone(sourceTime, a.to_timezone))

\* convertTime once sourceTime is built (lines 169-231)
convertTimeFromSource(a, calls, sourceTime) ==
    IF ~sourceTime.valid
    THEN ThrowConversionError("INVALID_TIME_FORMAT",
             <<"Invalid time for the given timezone", <<>>>>,
             Details({"time", "timezone", "reason"}, a.from_timezone,
                     a.time, ""),
             Trace(calls, sourceTime, InvalidDateTime, InvalidDateTime,
                   InvalidDateTime), 0)
    ELSE convertTimeFromProbe(a, calls \o <<"minus", "plus">>, sourceTime,
             minusHours(sourceTime, 1), plusHours(sourceTime, 1))

\* a convertTime that takes the date from the clock as read in the source
\* zone: DateTime.now().setZone(args.from_timezone)
convertTimeFromSplitSourceDate(a, calls, hours, minutes) ==
    convertTimeFromSource(a, calls \o <<"DateTime.now", "DateTime.fromObject">>,
        fromObject(dtDay(setZone(DateTimeNow, a.from_timezone)), hours, minutes,
                   a.from_timezone))

\* convertTime once the time is split into hours and minutes (lines 152-231)
convertTimeFromSplit(a, calls, hours, minutes) ==
    convertTimeFromSource(a, calls \o <<"DateTime.now", "DateTime.fromObject">>,
        fromObject(dtDay(DateTimeNow), hours, minutes, a.from_timezone))

\* the numbers of the array pattern [hours, minutes]
convertTimeFromParts(a, calls, parts) ==
    convertTimeFromSplit(a, calls, parts[1], parts[2])

\* the try block of convertTime, entered once the three checks passed; an
\* array has no split method
convertTimeTry(a, calls) ==
    IF a.time.t # "str"
    THEN CatchUnexpected("args.time.split is not a function",
             Trace(calls \o <<"split">>, InvalidDateTime, InvalidDateTime,
                   InvalidDateTime, InvalidDateTime))
    ELSE convertTimeFromParts(a, calls \o <<"split">>, splitNumbers(a.time.s))

\* convertTime from its time format check on (lines 140-147), then the try
\* block; regex.test converts its argument to a string first
convertTimeFromTime(a, calls) ==
    LET none == InvalidDateTime
        c3 == calls \o <<"validateTimeFormat">>
    IN  IF ~CanToString(a.time)
        THEN ThrowTypeError("Cannot convert object to primitive value",
                            Trace(c3, none, none, none, none))
        ELSE IF ~validateTimeFormat(a.time)
        THEN ThrowConversionError("INVALID_TIME_FORMAT",
                 <<"Invalid time format. Expected HH:MM", <<>>>>,
                 Details({"time"}, Undefined, a.time, ""),
                 Trace(c3, none, none, none, none), 0)
        ELSE convertTimeTry(a, c3)

\* a convertTime that leaves the target zone to setZone: no target zone check
convertTimeNoTargetCheck(a, calls) ==
    convertTimeFromTime(a, calls \o <<"validateTimezone(to)">>)

\* convertTime from its target zone check on (lines 132-138); the message
\* is a template literal, which converts the zone to a string
convertTimeFromTarget(a, calls) ==
    LET none == InvalidDateTime
        c2 == calls \o <<"validateTimezone(to)">>
    IN  IF validateTimezone(a.to_timezone) THEN convertTimeFromTime(a, c2)
        ELSE IF ~CanToString(a.to_timezone)
        THEN ThrowTypeError("Cannot convert object to primitive value",
                            Trace(c2, none, none, none, none))
        ELSE ThrowConversionError("INVALID_TIMEZONE",
                 <<"Invalid target timezone: ", StringOf(a.to_timezone)>>,
                 Details({"timezone"}, a.to_timezone, Undefined, ""),
                 Trace(c2, none, none, none, none), 0)

\* convertTime(args): the source zone check, the target zone check and the
\* time format check, all three outside the try block, then the try block
convertTime(a) ==
    LET none == InvalidDateTime
        c1 == <<"validateTimezone(from)">>
    IN  IF validateTimezone(a.from_timezone) THEN convertTimeFromTarget(a, c1)
        ELSE IF ~CanToString(a.from_timezone)
        THEN ThrowTypeError("Cannot convert object to primitive value",
                            Trace(c1, none, none, none, none))
        ELSE ThrowConversionError("INVALID_TIMEZONE",
                 <<"Invalid source timezone: ", StringOf(a.from_timezone)>>,
                 Details({"timezone"}, a.from_timezone, Undefined, ""),
                 Trace(c1, none, none, none, none), 0)

-----------------------------------------------------------------------------
(* The inputs: clock readings, process zones and requests *)

\* the time string HH:MM, and the form H:MM for an hour below 10
HHMM(h, m) == Pad2(h) \o <<":">> \o Pad2(m)
HMM(h, m) == <<DigitChar(h)>> \o <<":">> \o Pad2(m)

\* Clock readings: on the days of the transitions of the model's zones,
\* before and after the transition, and on days without one.
Clock ==
    { At(1, 15, 12, 0),                       \* winter, no transition
      At(3, 9, 16, 0),                        \* March 9 in UTC, March 10 in Tokyo
      At(3, 10, 1, 30), At(3, 10, 6, 0), At(3, 10, 12, 0),
                                              \* New York forward, Casablanca back
      At(3, 31, 0, 30), At(3, 31, 12, 0),     \* Troll forward
      At(4, 14, 1, 0), At(4, 14, 12, 0),      \* Casablanca forward
      At(7, 1, 12, 0),                        \* summer, no transition
      At(10, 27, 0, 30), At(10, 27, 12, 0),   \* Troll back
      At(11, 3, 5, 0), At(11, 3, 12, 0) }     \* New York back

SysZones == {tzUTC, tzTokyo}

MalformedTimes ==
    { <<"2", "5", ":", "0", "0">>,
      <<"2", "4", ":", "0", "0">>,
      <<"2", ":", "5">>,
      <<"1", "4", ":", "3", "0", ":", "0", "0">>,
      <<"2", ":", "3", "0", " ", "P", "M">>,
      <<" ", "1", "4", ":", "3", "0">>,
      <<"1", "4", ":", "3", "0", " ">>,
      <<>> }

WellFormedTimes ==
    {HHMM(h, m) : h \in 0..4, m \in {0, 30}}
    \cup {HHMM(12, 0), HHMM(14, 30), HHMM(23, 30), HHMM(23, 59)}
    \cup {HMM(1, 30), HMM(2, 30), HMM(7, 5)}

TimeValues ==
    {Str(s) : s \in WellFormedTimes \cup MalformedTimes}
    \cup {Arr(HHMM(14, 30)), Obj}

ZoneValues ==
    {Str(z) : z \in {tzNewYork, tzTokyo, tzTroll, tzCasablanca, tzUTC,
                     tzInvalid}}
    \cup {Obj}

Requests ==
    [time : TimeValues, from_timezone : ZoneValues, to_timezone : ZoneValues]

NoArgs == [time |-> Undefined, from_timezone |-> Undefined,
           to_timezone |-> Undefined]

NoOutcome ==
    [kind |-> "none", type |-> "none", message |-> <<"", <<>>>>,
     details |-> NoDetails, result |-> NoResult,
     trace |-> Trace(<<>>, InvalidDateTime, InvalidDateTime, InvalidDateTime,
                     InvalidDateTime),
     logged |-> 0]

\* the lines console.error may have written before the model stops calling
MaxConsole == 1

\* the payload of a request: what JSON.parse makes of it ("malformed" when
\* it throws, "null", "number" or "object") and, of an object, the three
\* fields; a field that is missing is undefined
Payload(json, time, from_timezone, to_timezone) ==
    [json |-> json, time |-> time, from_timezone |-> from_timezone,
     to_timezone |-> to_timezone]

NoPayload == Payload("none", Undefined, Undefined, Undefined)

NoRequest ==
    [method |-> "none", url |-> "", contentType |-> "", payload |-> NoPayload]

\* the body of a response: nothing, a result, or an error object
EmptyBody ==
    [kind |-> "empty", result |-> NoResult, error |-> <<"", <<>>>>,
     type |-> "none", details |-> NoDetails]

NoResponse == [status |-> 0, body |-> EmptyBody]

\* an MCP tools/call request: the tool's name, whether params.arguments is
\* there, and the three fields of the arguments
ToolCall(name, arguments, time, from_timezone, to_timezone) ==
    [name |-> name, arguments |-> arguments, time |-> time,
     from_timezone |-> from_timezone, to_timezone |-> to_timezone]

NoToolCall == ToolCall("none", "absent", Undefined, Undefined, Undefined)

\* what the tool handler returns or throws: a tool result (the text of its
\* content as the values that are written into it, and isError) or an error
ToolReply(kind, code, isError, result, message, type, details) ==
    [kind |-> kind, code |-> code, isError |-> isError, result |-> result,
     message |-> message, type |-> type, details |-> details]

NoToolReply ==
    ToolReply("none", "none", FALSE, NoResult, <<"", <<>>>>, "none", NoDetails)

\* the connections on which requests arrive
Conns == {"c1", "c2"}

\* what handleRequest has done: the response, the convertTime call it made
\* (if any) and the lines written with console.error
Handled(resp, a, r, lines) ==
    [response |-> resp, args |-> a, outcome |-> r, lines |-> lines]

NoHandled == Handled(NoResponse, NoArgs, NoOutcome, 0)

\* a request in flight: where its handleRequest call stands (pc), the chunks
\* of the body still to come (rest), the local variable data of
\* parseRequestBody, whether the body stream has ended, the value the
\* promise of parseRequestBody settled with (body), what the handler did,
\* the response on the wire and the number of times a response was written
Conn(pc, req, rest, data, ended, body, handled, resp, writes) ==
    [pc |-> pc, req |-> req, rest |-> rest, data |-> data, ended |-> ended,
     body |-> body, handled |-> handled, response |-> resp, writes |-> writes]

FreeConn ==
    Conn("free", NoRequest, <<>>, <<>>, FALSE, NoPayload, NoHandled,
         NoResponse, 0)

NoConns == [c \in Conns |-> FreeConn]

-----------------------------------------------------------------------------
(* The state machine *)

Init ==
    /\ now \in Clock
    /\ sysZone \in SysZones
    /\ args = NoArgs
    /\ outcome = NoOutcome
    /\ console = 0
    /\ probe = <<>>
    /\ verdict = "none"
    /\ request = NoRequest
    /\ response = NoResponse
    /\ toolCall = NoToolCall
    /\ toolReply = NoToolReply
    /\ conns = NoConns

\* a caller invokes convertTime(a) at the current clock reading
Call(a) ==
    /\ outcome.kind = "none"
    /\ console < MaxConsole
    /\ LET r == convertTime(a)
       IN  /\ args' = a
           /\ outcome' = r
           /\ console' = console + r.logged
    /\ UNCHANGED <<now, sysZone, probe, verdict, request, response, others>>

\* the caller has taken the result or the error of the call
Done ==
    /\ outcome.kind # "none"
    /\ args' = NoArgs
    /\ outcome' = NoOutcome
    /\ UNCHANGED <<now, sysZone, console, probe, verdict, request, response,
                   others>>

\* between two calls the clock moves on to a later reading
Tick ==
    /\ outcome.kind = "none"
    /\ \E t \in Clock : t > now /\ now' = t
    /\ UNCHANGED <<sysZone, args, outcome, console, probe, verdict, request,
                   response, others>>

Next ==
    \/ \E a \in Requests : Call(a)
    \/ Done
    \/ Tick

Spec == Init /\ [][Next]_vars

-----------------------------------------------------------------------------
(* The validators on their own: a string is handed to validateTimeFormat or *)
(* to validateTimezone and the boolean it returns is recorded.              *)

\* the longest string of the exhaustive part of the time strings
MaxTimeLen == 5

\* the characters of the exhaustive part: digits on both sides of the
\* bounds of the classes [0-1], [0-3] and [0-5], the colon and the space
TimeAlphabet == {"0", "2", "4", "5", "6", ":", " "}

TimeStrings ==
    UNION {[1..n -> TimeAlphabet] : n \in 0..MaxTimeLen}
    \cup WellFormedTimes \cup MalformedTimes
    \cup {HHMM(0, 0), HMM(0, 0), HMM(9, 59), HHMM(19, 0), HHMM(20, 0)}

InitFmt ==
    /\ now = At(1, 15, 12, 0)
    /\ sysZone = tzUTC
    /\ args = NoArgs
    /\ outcome = NoOutcome
    /\ console = 0
    /\ probe \in TimeStrings
    /\ verdict = "none"
    /\ request = NoRequest
    /\ response = NoResponse
    /\ toolCall = NoToolCall
    /\ toolReply = NoToolReply
    /\ conns = NoConns

\* validateTimeFormat(probe) is called
CheckTimeFormat ==
    /\ verdict = "none"
    /\ verdict' = IF validateTimeFormat(Str(probe)) THEN "true" ELSE "false"
    /\ UNCHANGED <<now, sysZone, args, outcome, console, probe, request,
                   response, others>>

NextFmt == CheckTimeFormat

SpecFmt == InitFmt /\ [][NextFmt]_vars

\* zone strings: names of the database, misspellings of them and offsets
\* written in the ways a caller may try
ZoneStrings ==
    { tzNewYork, tzTokyo, tzTroll, tzCasablanca, tzUTC, tzInvalid, tzUtcPlus5,
      tzLowerNewYork, tzLocal, tzGMT, tzUtcMinus0730, tzNewYorkSpace, <<>> }
    \cup { prefix \o <<sign>> \o hours \o minutes :
             prefix \in {tzUTC, toLowerCase(tzUTC), tzGMT},
             sign \in {"+", "-"},
             hours \in {<<"5">>, <<"0", "5">>, <<"1", "4">>, <<"1", "2", "3">>},
             minutes \in {<<>>, <<":", "0", "0">>, <<":", "3", "0">>,
                          <<":", "3">>} }

InitZone ==
    /\ now \in Clock
    /\ sysZone \in SysZones
    /\ args = NoArgs
    /\ outcome = NoOutcome
    /\ console = 0
    /\ probe \in ZoneStrings
    /\ verdict = "none"
    /\ request = NoRequest
    /\ response = NoResponse
    /\ toolCall = NoToolCall
    /\ toolReply = NoToolReply
    /\ conns = NoConns

\* validateTimezone(probe) is called
CheckTimezone ==
    /\ verdict = "none"
    /\ verdict' = IF validateTimezone(Str(probe)) THEN "true" ELSE "false"
    /\ UNCHANGED <<now, sysZone, args, outcome, console, probe, request,
                   response, others>>

NextZone == CheckTimezone

SpecZone == InitZone /\ [][NextZone]_vars

-----------------------------------------------------------------------------
(* types.ts: the kinds of ConversionError *)

ConversionErrorType ==
    {"INVALID_TIME_FORMAT", "INVALID_TIMEZONE", "INVALID_TIMEZONE_FORMAT",
     "AMBIGUOUS_TIME", "SKIPPED_TIME", "CONVERSION_FAILED", "SYSTEM_ERROR"}

-----------------------------------------------------------------------------
(* index.ts: the HTTP transport.  handleRequest answers one request: it     *)
(* checks the method, the path and the content type, reads and parses the  *)
(* body, calls convertTime and writes the response.                        *)

ctJson ==
    <<"a", "p", "p", "l", "i", "c", "a", "t", "i", "o", "n", "/", "j", "s",
      "o", "n">>
ctJsonCharset ==
    <<"a", "p", "p", "l", "i", "c", "a", "t", "i", "o", "n", "/", "j", "s",
      "o", "n", ";", " ", "c", "h", "a", "r", "s", "e", "t", "=", "u", "t",
      "f", "-", "8">>
ctText == <<"t", "e", "x", "t", "/", "p", "l", "a", "i", "n">>

\* String.prototype.includes
Includes(s, sub) ==
    \E i \in 1..(Len(s) - Len(sub) + 1) : SubSeq(s, i, i + Len(sub) - 1) = sub

\* req.headers['content-type']?.includes('application/json'); a header
\* that is absent is undefined
contentTypeIsJson(contentType) ==
    contentType # Undefined /\ Includes(contentType.s, ctJson)

\* a value that JavaScript's ! takes for false: undefined and the empty
\* string, of the values a field has in the model
Falsy(v) == v = Undefined \/ (v.t = "str" /\ v.s = <<>>)

\* res.writeHead(statusCode, ...); res.end(JSON.stringify(data))
sendResponse(statusCode, data) == [status |-> statusCode, body |-> data]

\* the body JSON.stringify makes of a result: the result unchanged
ResultBody(result) ==
    [kind |-> "result", result |-> result, error |-> <<"", <<>>>>,
     type |-> "none", details |-> NoDetails]

\* sendError(res, statusCode, message, type, details): the type and the
\* details are put in the body only when they are given
sendError(statusCode, message, type, details) ==
    sendResponse(statusCode,
        [kind |-> "error", result |-> NoResult, error |-> message,
         type |-> type, details |-> details])

\* a catch block that answers a SYSTEM_ERROR ConversionError with status 500
handleRequestCatchSystem500(a, r, error) ==
    IF error.kind = "ConversionError" /\ error.type # "SYSTEM_ERROR"
    THEN Handled(sendError(400, error.message, error.type, error.details),
                 a, r, r.logged)
    ELSE Handled(sendError(500, <<"Internal Server Error", <<>>>>,
                           "SYSTEM_ERROR", NoDetails),
                 a, r, r.logged + 1)

\* the catch block of handleRequest for the error thrown by
\* parseRequestBody or by convertTime
handleRequestCatch(a, r, error) ==
    IF error.kind = "ConversionError"
    THEN Handled(sendError(400, error.message, error.type, error.details),
                 a, r, r.logged)
    ELSE Handled(sendError(500, <<"Internal Server Error", <<>>>>,
                           "SYSTEM_ERROR", NoDetails),
                 a, r, r.logged + 1)

\* handleRequest once convertTime has ended (lines 57-66)
handleRequestConverted(a, r) ==
    IF r.kind = "result"
    THEN Handled(sendResponse(200, ResultBody(r.result)), a, r, r.logged)
    ELSE handleRequestCatch(a, r, r)

\* the ConversionError with which parseRequestBody rejects
parseRejection(text) ==
    ThrowConversionError("INVALID_TIME_FORMAT", <<text, <<>>>>, NoDetails,
        Trace(<<>>, InvalidDateTime, InvalidDateTime, InvalidDateTime,
              InvalidDateTime), 0)

\* a handleRequest that lets convertTime find the missing fields
handleRequestUnchecked(payload) ==
    IF payload.json \in {"malformed", "null"}
    THEN handleRequestCatch(NoArgs, NoOutcome,
                            parseRejection("Invalid JSON payload"))
    ELSE handleRequestConverted(
             [time |-> payload.time, from_timezone |-> payload.from_timezone,
              to_timezone |-> payload.to_timezone],
             convertTime([time |-> payload.time,
                          from_timezone |-> payload.from_timezone,
                          to_timezone |-> payload.to_timezone]))

\* parseRequestBody and what follows it in handleRequest (lines 55-66):
\* JSON.parse throws on a malformed payload, body.time throws on null, both
\* inside the try block of parseRequestBody
handleRequestBody(payload) ==
    IF payload.json \in {"malformed", "null"}
    THEN handleRequestCatch(NoArgs, NoOutcome,
                            parseRejection("Invalid JSON payload"))
    ELSE IF Falsy(payload.time) \/ Falsy(payload.from_timezone)
            \/ Falsy(payload.to_timezone)
    THEN handleRequestCatch(NoArgs, NoOutcome,
             parseRejection(
                 "Missing required fields: time, from_timezone, to_timezone"))
    ELSE handleRequestConverted(
             [time |-> payload.time, from_timezone |-> payload.from_timezone,
              to_timezone |-> payload.to_timezone],
             convertTime([time |-> payload.time,
                          from_timezone |-> payload.from_timezone,
                          to_timezone |-> payload.to_timezone]))

\* handleRequest(req, res)
handleRequest(req) ==
    IF req.method = "OPTIONS"
    THEN Handled(sendResponse(204, EmptyBody), NoArgs, NoOutcome, 0)
    ELSE IF req.method # "POST" \/ req.url # "/convert"
    THEN Handled(sendError(404, <<"Not Found", <<>>>>, "none", NoDetails),
                 NoArgs, NoOutcome, 0)
    ELSE IF ~contentTypeIsJson(req.contentType)
    THEN Handled(sendError(400, <<"Content-Type must be application/json",
                                  <<>>>>, "none", NoDetails),
                 NoArgs, NoOutcome, 0)
    ELSE handleRequestBody(req.payload)

\* the payloads: ones JSON.parse refuses, null, a number, and objects whose
\* fields are strings, not strings, empty or missing
Payloads ==
    { Payload(j, Undefined, Undefined, Undefined) :
          j \in {"malformed", "null", "number"} }
    \cup { Payload("object", t, f, z) :
             t \in {Str(HHMM(14, 30)), Str(HMM(2, 30)),
                    Str(<<"2", "5", ":", "0", "0">>), Str(<<>>), Undefined,
                    Arr(HHMM(14, 30)), Obj},
             f \in {Str(tzNewYork), Str(tzTroll), Str(tzInvalid), Undefined,
                    Obj},
             z \in {Str(tzUTC), Str(tzTokyo), Str(tzInvalid), Undefined} }

HttpRequests ==
    { [method |-> "POST", url |-> "/convert", contentType |-> Str(c),
       payload |-> p] : c \in {ctJson, ctJsonCharset}, p \in Payloads }
    \cup { [method |-> m, url |-> u, contentType |-> c,
            payload |-> Payload("object", Str(HHMM(14, 30)), Str(tzNewYork),
                                Str(tzTokyo))] :
             m \in {"POST", "GET", "OPTIONS"}, u \in {"/convert", "/"},
             c \in {Str(ctJson), Str(ctText), Undefined} }

\* the response of handleRequest and its effects on the process
Respond(req, h) ==
    /\ request' = req
    /\ response' = h.response
    /\ args' = h.args
    /\ outcome' = h.outcome
    /\ console' = console + h.lines

\* a request arrives and handleRequest answers it
HandleRequest(req) ==
    /\ request = NoRequest
    /\ console < MaxConsole
    /\ Respond(req, handleRequest(req))
    /\ UNCHANGED <<now, sysZone, probe, verdict, others>>

\* the response has gone to the client
ResponseSent ==
    /\ request # NoRequest
    /\ request' = NoRequest
    /\ response' = NoResponse
    /\ args' = NoArgs
    /\ outcome' = NoOutcome
    /\ UNCHANGED <<now, sysZone, console, probe, verdict, others>>

NextHttp ==
    \/ \E req \in HttpRequests : HandleRequest(req)
    \/ ResponseSent

SpecHttp == Init /\ [][NextHttp]_vars

-----------------------------------------------------------------------------
(* build/index.js: the MCP tool handler registered for tools/call.  It     *)
(* either returns a tool result or throws; what it throws goes back to the *)
(* client as a protocol error.                                             *)

\* throw new McpError(code, ...)
ThrowMcpError(code) ==
    ToolReply("McpError", code, FALSE, NoResult, <<"", <<>>>>, "none",
              NoDetails)

\* an error that is neither a ConversionError nor an McpError, thrown on
RethrowTypeError ==
    ToolReply("TypeError", "none", FALSE, NoResult, <<"", <<>>>>, "none",
              NoDetails)

\* what the tool handler has done: the reply and the convertTime call it
\* made (if any)
Served(reply, a, r) == [reply |-> reply, args |-> a, outcome |-> r]

\* the tool handler once convertTime has ended (lines 55-78)
toolHandlerConverted(a, r) ==
    IF r.kind = "result"
    THEN Served(ToolReply("result", "none", FALSE, r.result, <<"", <<>>>>,
                          "none", NoDetails), a, r)
    ELSE IF r.kind = "ConversionError"
    THEN Served(ToolReply("result", "none", TRUE, NoResult, r.message, r.type,
                          r.details), a, r)
    ELSE Served(RethrowTypeError, a, r)

\* the tool handler from its check of the three fields on (lines 44-78)
toolHandlerArguments(call) ==
    IF \/ Falsy(call.time) \/ Falsy(call.from_timezone)
       \/ Falsy(call.to_timezone)
       \/ call.time.t # "str" \/ call.from_timezone.t # "str"
       \/ call.to_timezone.t # "str"
    THEN Served(ThrowMcpError("InvalidParams"), NoArgs, NoOutcome)
    ELSE toolHandlerConverted(
             [time |-> call.time, from_timezone |-> call.from_timezone,
              to_timezone |-> call.to_timezone],
             convertTime([time |-> call.time,
                          from_timezone |-> call.from_timezone,
                          to_timezone |-> call.to_timezone]))

\* the handler of CallToolRequestSchema (lines 37-79); params.arguments is
\* optional in a tools/call request, and args.time on undefined raises a
\* TypeError inside the try block, which the catch block throws on
toolHandler(call) ==
    IF call.name # "convert_timezone"
    THEN Served(ThrowMcpError("MethodNotFound"), NoArgs, NoOutcome)
    ELSE IF call.arguments = "absent"
    THEN Served(RethrowTypeError, NoArgs, NoOutcome)
    ELSE toolHandlerArguments(call)

\* the tools/call requests: the tool's name or another one, without
\* arguments, and with fields that are strings, not strings, empty or
\* missing
ToolCalls ==
    { ToolCall(n, "absent", Undefined, Undefined, Undefined) :
          n \in {"convert_timezone", "other_tool"} }
    \cup { ToolCall(n, "present", t, f, z) :
             n \in {"convert_timezone", "other_tool"},
             t \in {Str(HHMM(14, 30)), Str(HMM(2, 30)),
                    Str(<<"2", "5", ":", "0", "0">>), Str(<<>>), Undefined,
                    Arr(HHMM(14, 30))},
             f \in {Str(tzNewYork), Str(tzTroll), Str(tzInvalid), Str(<<>>),
                    Undefined, Obj},
             z \in {Str(tzUTC), Str(tzTokyo), Str(tzInvalid), Undefined,
                    Obj} }

\* a tools/call request arrives and the handler serves it
CallTool(call) ==
    /\ toolCall = NoToolCall
    /\ console < MaxConsole
    /\ toolCall' = call
    /\ toolReply' = toolHandler(call).reply
    /\ args' = toolHandler(call).args
    /\ outcome' = toolHandler(call).outcome
    /\ console' = console + toolHandler(call).outcome.logged
    /\ UNCHANGED <<now, sysZone, probe, verdict, request, response, conns>>

\* the reply has gone to the client
ToolReplied ==
    /\ toolCall # NoToolCall
    /\ toolCall' = NoToolCall
    /\ toolReply' = NoToolReply
    /\ args' = NoArgs
    /\ outcome' = NoOutcome
    /\ UNCHANGED <<now, sysZone, console, probe, verdict, request, response,
                   conns>>

NextMcp ==
    \/ \E call \in ToolCalls : CallTool(call)
    \/ ToolReplied

SpecMcp == Init /\ [][NextMcp]_vars

-----------------------------------------------------------------------------
(* index.ts: several HTTP requests in flight.  createServer calls           *)
(* handleRequest once per request; the call runs up to its first await,    *)
(* and the 'data' and 'end' events of the body streams of the requests     *)
(* come in any order.  The 'end' listener settles the promise of           *)
(* parseRequestBody, and handleRequest goes on from its await before any   *)
(* other event is served, up to await convertTime; what follows that await *)
(* is a step of its own.                                                   *)

\* the number of chunks in which a body arrives
MaxChunks == 2

\* the i-th piece of the text of payload p
BodyChunk(p, i) == [doc |-> p, part |-> i]

\* the text of payload p, in pieces
BodyOf(p) == [i \in 1..MaxChunks |-> BodyChunk(p, i)]

\* JSON.parse(data): the pieces of one payload's text, all of them and in
\* order, give that payload (which may be one that JSON.parse refuses);
\* any other text is malformed
JSONparse(data) ==
    IF data # <<>> /\ data = BodyOf(data[1].doc) THEN data[1].doc
    ELSE Payload("malformed", Undefined, Undefined, Undefined)

\* handleRequest gets as far as parseRequestBody (lines 37-52)
ReadsBody(req) ==
    /\ req.method # "OPTIONS"
    /\ ~(req.method # "POST" \/ req.url # "/convert")
    /\ contentTypeIsJson(req.contentType)

\* a response is written on the connection
Written(conn, h) ==
    [conn EXCEPT !.pc = "answered", !.handled = h, !.response = h.response,
                 !.writes = @ + 1]

\* a server whose data is one buffer for all requests: a chunk is appended
\* for every request that is being read
appendChunkShared(cs, c, chunk) ==
    [d \in Conns |->
        IF d = c THEN [cs[d] EXCEPT !.data = @ \o <<chunk>>, !.rest = Tail(@)]
        ELSE IF cs[d].pc = "reading" THEN [cs[d] EXCEPT !.data = @ \o <<chunk>>]
        ELSE cs[d]]

\* the 'data' listener of parseRequestBody: data += chunk, data being a
\* local variable of the call
appendChunk(cs, c, chunk) ==
    [cs EXCEPT ![c].data = @ \o <<chunk>>, ![c].rest = Tail(@)]

\* an 'end' listener that rejects nothing: when JSON.parse throws, the
\* promise stays pending
settlePendingOnThrow(conn) ==
    IF JSONparse(conn.data).json = "malformed"
    THEN [conn EXCEPT !.pc = "pending", !.ended = TRUE]
    ELSE [conn EXCEPT !.pc = "settled", !.ended = TRUE,
                      !.body = JSONparse(conn.data)]

\* the 'end' listener of parseRequestBody: the promise is resolved or
\* rejected according to JSON.parse(data)
settle(conn) ==
    [conn EXCEPT !.pc = "settled", !.ended = TRUE,
                 !.body = JSONparse(conn.data)]

\* handleRequest goes on after await parseRequestBody, if the promise is
\* settled: when it was rejected the catch block answers, otherwise
\* convertTime is called and handleRequest awaits it
resumed(conn, h) ==
    IF conn.pc # "settled" THEN conn
    ELSE IF h.outcome.kind = "none" THEN Written(conn, h)
    ELSE [conn EXCEPT !.pc = "converted", !.handled = h]

\* the console.error lines of convertTime in that step
resumedLines(conn, h) ==
    IF conn.pc # "settled" THEN 0 ELSE h.outcome.logged

\* a request arrives on a free connection and handleRequest runs up to its
\* first await, or to its return when it answers at once
Arrive(c, req) ==
    /\ conns[c].pc = "free"
    /\ conns' = [conns EXCEPT ![c] =
           IF ReadsBody(req)
           THEN [conns[c] EXCEPT !.pc = "reading", !.req = req,
                                 !.rest = BodyOf(req.payload)]
           ELSE Written([conns[c] EXCEPT !.req = req], handleRequest(req))]
    /\ UNCHANGED <<now, sysZone, args, outcome, console, probe, verdict,
                   request, response, toolCall, toolReply>>

\* the 'data' event of the body stream of the request on connection c
Data(c) ==
    /\ conns[c].pc = "reading"
    /\ conns[c].rest # <<>>
    /\ conns' = appendChunk(conns, c, Head(conns[c].rest))
    /\ UNCHANGED <<now, sysZone, args, outcome, console, probe, verdict,
                   request, response, toolCall, toolReply>>

\* the 'end' event of the body stream: the listener settles the promise and
\* handleRequest goes on
End(c) ==
    /\ conns[c].pc = "reading"
    /\ conns[c].rest = <<>>
    /\ conns' = [conns EXCEPT ![c] =
           resumed(settle(conns[c]),
                   handleRequestBody(JSONparse(conns[c].data)))]
    /\ console' = console
           + resumedLines(settle(conns[c]),
                          handleRequestBody(JSONparse(conns[c].data)))
    /\ UNCHANGED <<now, sysZone, args, outcome, probe, verdict, request,
                   response, toolCall, toolReply>>

\* the body stream fails or the client stops sending: no 'end' event comes,
\* and parseRequestBody listens to no other event
Stall(c) ==
    /\ conns[c].pc = "reading"
    /\ conns' = [conns EXCEPT ![c].pc = "stalled"]
    /\ UNCHANGED <<now, sysZone, args, outcome, console, probe, verdict,
                   request, response, toolCall, toolReply>>

\* handleRequest goes on after await convertTime: sendResponse, or the catch
\* block and sendError
Send(c) ==
    /\ conns[c].pc = "converted"
    /\ conns' = [conns EXCEPT ![c] = Written(conns[c], conns[c].handled)]
    /\ console' = console + conns[c].handled.lines
                     - conns[c].handled.outcome.logged
    /\ UNCHANGED <<now, sysZone, args, outcome, probe, verdict, request,
                   response, toolCall, toolReply>>

\* the clock readings while requests are in flight
ConcClock == {At(3, 10, 1, 30), At(3, 31, 12, 0)}

\* the requests in flight: conversions whose answer depends on the date, a
\* body with a missing field, a malformed body, a time that is an array, a
\* zone that is an object, a preflight and a GET
ConcRequests ==
    { [method |-> "POST", url |-> "/convert", contentType |-> Str(ctJson),
       payload |-> p] :
          p \in { Payload("object", Str(HHMM(2, 30)), Str(tzNewYork), Str(tzUTC)),
                  Payload("object", Str(HHMM(2, 30)), Str(tzTroll), Str(tzTokyo)),
                  Payload("object", Str(HHMM(14, 30)), Str(tzNewYork), Undefined),
                  Payload("object", Arr(HHMM(14, 30)), Str(tzNewYork), Str(tzUTC)),
                  Payload("object", Str(HHMM(14, 30)), Obj, Str(tzUTC)),
                  Payload("malformed", Undefined, Undefined, Undefined) } }
    \cup { [method |-> m, url |-> "/convert", contentType |-> Str(ctJson),
            payload |-> Payload("object", Str(HHMM(14, 30)), Str(tzNewYork),
                                Str(tzTokyo))] : m \in {"OPTIONS", "GET"} }

InitConc ==
    /\ now \in ConcClock
    /\ sysZone \in SysZones
    /\ args = NoArgs
    /\ outcome = NoOutcome
    /\ console = 0
    /\ probe = <<>>
    /\ verdict = "none"
    /\ request = NoRequest
    /\ response = NoResponse
    /\ toolCall = NoToolCall
    /\ toolReply = NoToolReply
    /\ conns = NoConns

\* the clock moves on while requests are in flight
TickConc ==
    /\ \E t \in ConcClock : t > now /\ now' = t
    /\ UNCHANGED <<sysZone, args, outcome, console, probe, verdict, request,
                   response, others>>

NextConc ==
    \/ \E c \in Conns : \E req \in ConcRequests : Arrive(c, req)
    \/ \E c \in Conns : Data(c)
    \/ \E c \in Conns : End(c)
    \/ \E c \in Conns : Stall(c)
    \/ \E c \in Conns : Send(c)
    \/ TickConc

SpecConc == InitConc /\ [][NextConc]_vars

\* what follows an await runs once the awaited promise is settled: the
\* event loop leaves no such step waiting for ever
SpecLive ==
    /\ InitConc
    /\ [][NextConc]_vars
    /\ \A c \in Conns : WF_vars(Send(c))

-----------------------------------------------------------------------------
(* Properties of convertTime *)

\* a call has ended and its record is in outcome
Called == outcome.kind # "none"

\* the request's three fields are strings, as TimezoneConversionInput has them
StringArgs ==
    /\ args.time.t = "str"
    /\ args.from_timezone.t = "str"
    /\ args.to_timezone.t = "str"

Failed(type) == outcome.kind = "ConversionError" /\ outcome.type = type

Succeeded == outcome.kind = "result"

Calls == {outcome.trace.calls[i] : i \in 1..Len(outcome.trace.calls)}

\* C1: convertTime checks the source zone, then the target zone, then the
\* time format, and stops at the first check that fails: an invalid source
\* zone gives INVALID_TIMEZONE naming the source zone whatever the target
\* zone and the time are, a valid source with an invalid target zone gives
\* INVALID_TIMEZONE naming the target zone whatever the time is, valid zones
\* with a malformed time give INVALID_TIME_FORMAT, and DateTime.fromObject
\* is called only when the three checks passed.
C1_ValidationOrder ==
    (Called /\ StringArgs) =>
        LET srcOk == validateTimezone(args.from_timezone)
            tgtOk == validateTimezone(args.to_timezone)
            timeOk == validateTimeFormat(args.time)
        IN  /\ ~srcOk =>
                /\ Failed("INVALID_TIMEZONE")
                /\ outcome.message
                     = <<"Invalid source timezone: ", args.from_timezone.s>>
                /\ outcome.details.timezone = args.from_timezone
                /\ outcome.trace.calls = <<"validateTimezone(from)">>
            /\ (srcOk /\ ~tgtOk) =>
                /\ Failed("INVALID_TIMEZONE")
                /\ outcome.message
                     = <<"Invalid target timezone: ", args.to_timezone.s>>
                /\ outcome.details.timezone = args.to_timezone
                /\ outcome.trace.calls
                     = <<"validateTimezone(from)", "validateTimezone(to)">>
            /\ (srcOk /\ tgtOk /\ ~timeOk) =>
                /\ Failed("INVALID_TIME_FORMAT")
                /\ outcome.trace.calls
                     = <<"validateTimezone(from)", "validateTimezone(to)",
                         "validateTimeFormat">>
            /\ "DateTime.fromObject" \in Calls => (srcOk /\ tgtOk /\ timeOk)
            /\ outcome.trace.sourceTime.valid => (srcOk /\ tgtOk /\ timeOk)

\* C1's case: a request whose source zone, target zone and time are all
\* three invalid has been answered
C1_Witness ==
    /\ Called
    /\ args.from_timezone = Str(tzInvalid)
    /\ args.to_timezone = Str(tzInvalid)
    /\ args.time = Str(<<"2", "5", ":", "0", "0">>)
    /\ Failed("INVALID_TIMEZONE")

-----------------------------------------------------------------------------
(* The civil times of a zone, read from the zone's rules alone *)

\* the offsets a zone ever has
OffsetsOf(zone) ==
    CASE zone.type = "iana" ->
           {ZoneRules[zone.name][i][2] : i \in 1..Len(ZoneRules[zone.name])}
      [] zone.type = "system" ->
           {ZoneRules[sysZone][i][2] : i \in 1..Len(ZoneRules[sysZone])}
      [] OTHER -> {zone.fixed}

\* the instants at which the clocks of the zone show civil time localTS
CivilInstants(zone, localTS) ==
    {localTS - o : o \in {p \in OffsetsOf(zone) :
                            zoneOffset(zone, localTS - p) = p}}

\* today's date as the process's clock gives it, and the requested time on it
Today == dtDay(DateTimeNow)

RequestedMinutes ==
    LET parts == splitNumbers(args.time.s) IN parts[1] * 60 + parts[2]

RequestedLocalTS == Today * MinutesPerDay + RequestedMinutes

\* a call with string fields that passed the three checks
ValidRequest ==
    /\ Called
    /\ StringArgs
    /\ validateTimezone(args.from_timezone)
    /\ validateTimezone(args.to_timezone)
    /\ validateTimeFormat(args.time)

SourceZone == normalizeZone(args.from_timezone)

\* the requested time does not occur today on the clocks of the source zone
RequestedSkipped == CivilInstants(SourceZone, RequestedLocalTS) = {}

\* the requested time occurs twice today on the clocks of the source zone
RequestedAmbiguous == Cardinality(CivilInstants(SourceZone, RequestedLocalTS)) > 1

\* C2: when today is a spring-forward date of the source zone, every
\* well-formed requested time inside the skipped interval makes convertTime
\* fail with SKIPPED_TIME, the current instant being before or after the
\* transition, and never gives a result.
C2_GapTimeIsSkipped ==
    (ValidRequest /\ RequestedSkipped) => Failed("SKIPPED_TIME")

\* C3: convertTime fails with SKIPPED_TIME only if the requested civil time
\* does not exist today in the source zone; a time that occurs on the local
\* clock, also one less than an hour from a transition, is never rejected as
\* SKIPPED_TIME.
C3_SkippedOnlyInGap ==
    (Called /\ StringArgs /\ Failed("SKIPPED_TIME")) => RequestedSkipped

\* C4: a requested time that occurs twice today in the source zone, because
\* of a fall-back transition, is rejected: the call ends with a failure and
\* not with a result.
C4_AmbiguousRejected ==
    (ValidRequest /\ RequestedAmbiguous) => outcome.kind = "ConversionError"

\* C5: on success the source and the target instant are the same instant,
\* and converted_time is (requested minutes - source offset + target offset)
\* modulo 24 hours, with the offsets in force at that instant.
C5_SameInstant ==
    (Succeeded /\ StringArgs) =>
        LET st == outcome.trace.sourceTime
            tt == outcome.trace.targetTime
            srcOffset == zoneOffset(SourceZone, st.ts)
            tgtOffset == zoneOffset(normalizeZone(args.to_timezone), st.ts)
            minutes == (RequestedMinutes - srcOffset + tgtOffset) % MinutesPerDay
        IN  /\ st.ts = tt.ts
            /\ outcome.result.converted_time = HHMM(minutes \div 60, minutes % 60)

\* the request's time with the hour padded to two digits
PaddedTime == HHMM(RequestedMinutes \div 60, RequestedMinutes % 60)

SameZone == args.from_timezone = args.to_timezone

TransitionsOf(zone) ==
    CASE zone.type = "iana" ->
           {ZoneRules[zone.name][i][1] : i \in 2..Len(ZoneRules[zone.name])}
      [] zone.type = "system" ->
           {ZoneRules[sysZone][i][1] : i \in 2..Len(ZoneRules[sysZone])}
      [] OTHER -> {}

\* no offset of the source or the target zone changes on today's date, the
\* day before it or the day after it
NoTransitionNear ==
    \A zone \in {SourceZone, normalizeZone(args.to_timezone)} :
        \A t \in TransitionsOf(zone) :
            t < (Today - 1) * MinutesPerDay \/ t >= (Today + 2) * MinutesPerDay

\* the call that converts the result back, at the same clock reading
ConvertBack ==
    convertTime([time |-> Str(outcome.result.converted_time),
                 from_timezone |-> args.to_timezone,
                 to_timezone |-> args.from_timezone])

\* C7 as stated: when convertTime(time, A, B) succeeds with converted_time c,
\* convertTime(c, B, A) at the same clock reading succeeds and its
\* converted_time is the original time string, whenever no DST gap is
\* crossed (read here as widely as it can be: no transition of A or B near
\* today), also when c is on the previous or next calendar day in B.
C7_RoundTrip ==
    (ValidRequest /\ Succeeded /\ NoTransitionNear) =>
        /\ ConvertBack.kind = "result"
        /\ ConvertBack.result.converted_time = args.time.s

\* C7 amended: under the same conditions the call back succeeds and its
\* converted_time is the original time with the hour padded to two digits.
C7_RoundTripPadded ==
    (ValidRequest /\ Succeeded /\ NoTransitionNear) =>
        /\ ConvertBack.kind = "result"
        /\ ConvertBack.result.converted_time = PaddedTime

\* C7's case: 14:30 in New York is 03:30 of the next day in Tokyo, and
\* converting 03:30 back gives 14:30
C7_Witness ==
    /\ Succeeded
    /\ NoTransitionNear
    /\ args = [time |-> Str(HHMM(14, 30)), from_timezone |-> Str(tzNewYork),
               to_timezone |-> Str(tzTokyo)]
    /\ outcome.result.converted_time = HHMM(3, 30)
    /\ dtDay(outcome.trace.targetTime) = dtDay(outcome.trace.sourceTime) + 1
    /\ ConvertBack.result.converted_time = HHMM(14, 30)

\* C10: no raw runtime fault escapes convertTime: whichever step raises an
\* exception that is no ConversionError, the call ends with a ConversionError
\* of kind SYSTEM_ERROR carrying the original message, never with an
\* exception of another type.
C10_NoRawFault ==
    Called =>
        /\ outcome.kind \in {"result", "ConversionError"}
        /\ (\E f \in {args.time, args.from_timezone, args.to_timezone} :
                f.t # "str" /\ outcome.kind # "result")
             => outcome.kind = "ConversionError"

-----------------------------------------------------------------------------
(* Properties of the validators *)

\* the times of day written HH:MM, and H:MM for the hours below 10
TimesOfDay ==
    {HHMM(h, m) : h \in 0..23, m \in 0..59}
    \cup {HMM(h, m) : h \in 0..9, m \in 0..59}

\* C8: validateTimeFormat(s) is true exactly when s is, and is nothing but,
\* an hour 0..23 written with one or two digits, a colon and a minute 00..59
\* written with two digits; so 0:00, 00:00 and 23:59 pass and 24:00, 2:5,
\* 14:30:00 and "2:30 PM" do not.
C8_TimeFormatExact ==
    verdict # "none" => (verdict = "true" <=> probe \in TimesOfDay)

\* C8's case: the one-digit hour of 7:05 has been accepted
C8_Witness == verdict = "true" /\ probe = HMM(7, 5)

\* the zone database knows z as the name of a zone
Recognized(z) ==
    Len(z) > 0 /\ \E n \in IanaNames : LoweredNames[n] = toLowerCase(z)

\* C9: validateTimezone(z) is true exactly when z is an identifier the zone
\* database recognizes as a zone: UTC is accepted, and Invalid/Timezone, the
\* empty string and free-form offsets such as UTC+5 are rejected.
C9_TimezoneExact ==
    verdict # "none" => (verdict = "true" <=> Recognized(probe))

-----------------------------------------------------------------------------
(* Properties of the result and of the failures of convertTime *)

\* every field of the result holds a value
ResultFilled ==
    /\ Len(outcome.result.converted_time) > 0
    /\ Len(outcome.result.source.offset) > 0
    /\ Len(outcome.result.target.offset) > 0
    /\ Len(outcome.result.target.time) > 0
    /\ outcome.result.source.time # Undefined
    /\ outcome.result.source.timezone # Undefined
    /\ outcome.result.target.timezone # Undefined

\* C11: a result is returned only when the source instant is valid, the
\* skipped-time check passed and the target instant is valid; every other
\* call ends in an error that carries no result field; no call ends with
\* both a result and an error, or with a result that is partly filled.
C11_ResultOnlyWhenResolved ==
    Called =>
        /\ Succeeded =>
              /\ outcome.trace.sourceTime.valid
              /\ ~dstTransition(outcome.trace.beforeTime, outcome.trace.afterTime)
              /\ outcome.trace.targetTime.valid
              /\ ResultFilled
              /\ outcome.type = "none"
              /\ outcome.details = NoDetails
        /\ ~Succeeded =>
              /\ outcome.kind \in {"ConversionError", "TypeError"}
              /\ outcome.result = NoResult

\* C11's case: 14:30 in New York has been converted to Tokyo's time
C11_Witness ==
    /\ Succeeded
    /\ args = [time |-> Str(HHMM(14, 30)), from_timezone |-> Str(tzNewYork),
               to_timezone |-> Str(tzTokyo)]
    /\ outcome.trace.targetTime.valid
    /\ ResultFilled

\* C12 as stated: an INVALID_TIMEZONE failure carries the details
\* {zone: the rejected identifier, role: "source" or "target"}.
C12_ZoneAndRole ==
    (Called /\ Failed("INVALID_TIMEZONE")) =>
        outcome.details.keys = {"zone", "role"}

\* C12 amended: an INVALID_TIMEZONE failure carries the details
\* {timezone: the rejected identifier} and nothing else; which of the two
\* zones was rejected is told by the message alone, "Invalid source
\* timezone: " or "Invalid target timezone: " followed by the identifier.
C12_TimezoneDetail ==
    (Called /\ Failed("INVALID_TIMEZONE")) =>
        /\ outcome.details.keys = {"timezone"}
        /\ IF ~validateTimezone(args.from_timezone)
           THEN /\ outcome.details.timezone = args.from_timezone
                /\ outcome.message
                     = <<"Invalid source timezone: ", args.from_timezone.s>>
           ELSE /\ ~validateTimezone(args.to_timezone)
                /\ outcome.details.timezone = args.to_timezone
                /\ outcome.message
                     = <<"Invalid target timezone: ", args.to_timezone.s>>

\* C12's case: the target zone of a request with a valid source zone and a
\* well-formed time has been rejected
C12_Witness ==
    /\ Failed("INVALID_TIMEZONE")
    /\ args = [time |-> Str(HHMM(14, 30)), from_timezone |-> Str(tzNewYork),
               to_timezone |-> Str(tzInvalid)]
    /\ outcome.details.timezone = Str(tzInvalid)

\* s is two digits, a colon and two digits, a time of day
IsHHMM(s) ==
    /\ Len(s) = 5
    /\ IsDigit(s[1]) /\ IsDigit(s[2]) /\ s[3] = ":"
    /\ IsDigit(s[4]) /\ IsDigit(s[5])
    /\ ToNumber(SubSeq(s, 1, 2)) < 24
    /\ ToNumber(SubSeq(s, 4, 5)) < 60

\* s is a sign, two digits, a colon and two digits
IsSignedOffset(s) ==
    /\ Len(s) = 6
    /\ s[1] \in {"+", "-"}
    /\ IsDigit(s[2]) /\ IsDigit(s[3]) /\ s[4] = ":"
    /\ IsDigit(s[5]) /\ IsDigit(s[6])

\* the minutes east of UTC that a signed offset string tells
OffsetMinutes(s) ==
    (IF s[1] = "-" THEN 0 - 1 ELSE 1)
    * (60 * ToNumber(SubSeq(s, 2, 3)) + ToNumber(SubSeq(s, 5, 6)))

\* the minutes after midnight that an HH:MM string tells
TimeMinutes(s) == 60 * ToNumber(SubSeq(s, 1, 2)) + ToNumber(SubSeq(s, 4, 5))

\* C13 as stated: in every result source.time, target.time and
\* converted_time are zero-padded HH:MM strings, the formatted source and
\* target instants, also when the request's hour had one digit, and the two
\* offsets are signed +HH:MM or -HH:MM strings.
C13_FormattedFields ==
    Succeeded =>
        /\ outcome.result.source.time.t = "str"
        /\ IsHHMM(outcome.result.source.time.s)
        /\ IsHHMM(outcome.result.target.time)
        /\ IsHHMM(outcome.result.converted_time)
        /\ IsSignedOffset(outcome.result.source.offset)
        /\ IsSignedOffset(outcome.result.target.offset)

\* C13 amended: in every result target.time and converted_time are the same
\* zero-padded HH:MM string, the time of day of the target instant, and the
\* two offsets are signed +HH:MM or -HH:MM strings telling the offsets of
\* the source and the target instant; source.time is the request's time
\* string as it was given, so H:MM when the hour was given with one digit.
C13_FormattedTarget ==
    Succeeded =>
        /\ outcome.result.source.time = args.time
        /\ IsHHMM(outcome.result.target.time)
        /\ outcome.result.converted_time = outcome.result.target.time
        /\ TimeMinutes(outcome.result.target.time)
             = 60 * dtHour(outcome.trace.targetTime)
               + dtMinute(outcome.trace.targetTime)
        /\ IsSignedOffset(outcome.result.source.offset)
        /\ IsSignedOffset(outcome.result.target.offset)
        /\ OffsetMinutes(outcome.result.source.offset) = outcome.trace.sourceTime.o
        /\ OffsetMinutes(outcome.result.target.offset) = outcome.trace.targetTime.o

\* C13's case: 7:05 has been converted from New York, where the offset is
\* negative, to Tokyo, and the result repeats the 7:05
C13_Witness ==
    /\ Succeeded
    /\ args.time = Str(HMM(7, 5))
    /\ args.from_timezone = Str(tzNewYork)
    /\ args.to_timezone = Str(tzTokyo)
    /\ outcome.result.source.time = Str(HMM(7, 5))
    /\ outcome.result.source.offset[1] = "-"
    /\ outcome.result.target.offset = <<"+", "0", "9", ":", "0", "0">>

\* the call reached DateTime.fromObject
SourceBuilt == Called /\ "DateTime.fromObject" \in Calls

\* the calendar date of the current instant on the clocks of the source zone
TodayInSourceZone ==
    (now + zoneOffset(SourceZone, now)) \div MinutesPerDay

\* C14: the conversion is for today's date in the source zone: the calendar
\* date of the source instant is the current date as the source zone has
\* it, also when the process's zone is on another date at that moment.
C14_TodayInSourceZone ==
    (ValidRequest /\ SourceBuilt) =>
        dtDay(outcome.trace.sourceTime) = TodayInSourceZone

\* C15: the source instant is built from the date of the current instant on
\* the process's clock and the requested hour and minute, seconds zero, and
\* anchored to the source zone: its date in the source zone is the
\* process's date whatever the source zone is, its time of day is the
\* requested one when that time exists there today, and the same request
\* at the same clock reading builds the same instant.
C15_DateOfProcessClock ==
    (ValidRequest /\ SourceBuilt) =>
        /\ outcome.trace.sourceTime.valid
        /\ outcome.trace.sourceTime.zone = SourceZone
        /\ dtDay(outcome.trace.sourceTime) = Today
        /\ ~RequestedSkipped =>
              /\ outcome.trace.sourceTime.ts
                   \in CivilInstants(SourceZone, RequestedLocalTS)
              /\ 60 * dtHour(outcome.trace.sourceTime)
                   + dtMinute(outcome.trace.sourceTime) = RequestedMinutes
        /\ convertTime(args).trace.sourceTime = outcome.trace.sourceTime

\* C15's case: the process, in Tokyo, is on March 10 while New York is still
\* on March 9, and the source instant of a New York request is on March 10
C15_Witness ==
    /\ SourceBuilt
    /\ sysZone = tzTokyo
    /\ args.from_timezone = Str(tzNewYork)
    /\ args.time = Str(HHMM(12, 0))
    /\ Today = DayOfYear(3, 10)
    /\ TodayInSourceZone = DayOfYear(3, 9)
    /\ dtDay(outcome.trace.sourceTime) = DayOfYear(3, 10)

\* C16: for every well-formed time with source zone UTC and every valid
\* target zone, on every date, convertTime succeeds, so it never fails with
\* SKIPPED_TIME, and source.offset is "+00:00".
C16_UtcSource ==
    (ValidRequest /\ args.from_timezone = Str(tzUTC)) =>
        /\ Succeeded
        /\ outcome.result.source.offset = <<"+", "0", "0", ":", "0", "0">>

\* C16's case: 12:00 UTC has been converted to New York's time on the date
\* of New York's spring-forward transition
C16_Witness ==
    /\ Succeeded
    /\ args = [time |-> Str(HHMM(12, 0)), from_timezone |-> Str(tzUTC),
               to_timezone |-> Str(tzNewYork)]
    /\ Today = DayOfYear(3, 10)
    /\ outcome.result.source.offset = <<"+", "0", "0", ":", "0", "0">>

\* C20: convertTime has no side effect when it fails: on every failing
\* path, SYSTEM_ERROR included, it writes nothing to a log or an output
\* stream; the failure is only handed to the caller.
C20_NoLogOnFailure ==
    (Called /\ ~Succeeded) => outcome.logged = 0

\* the call built a valid source instant
SourceResolved == Called /\ outcome.trace.sourceTime.valid

\* the instant ts on the clocks of the source zone
InSourceZone(ts) == DateTime(ts, SourceZone, zoneOffset(SourceZone, ts))

\* the source zone's daylight-saving flag, respectively its offset, is not
\* the same one hour before and one hour after the source instant
FlagsDiffer ==
    isInDST(InSourceZone(outcome.trace.sourceTime.ts - 60))
        # isInDST(InSourceZone(outcome.trace.sourceTime.ts + 60))

OffsetsDiffer ==
    zoneOffset(SourceZone, outcome.trace.sourceTime.ts - 60)
        # zoneOffset(SourceZone, outcome.trace.sourceTime.ts + 60)

\* C22: once the source instant is resolved, convertTime fails with
\* SKIPPED_TIME exactly when the instants one hour before and one hour after
\* it, both in the source zone, differ in daylight-saving flag and also in
\* offset; when only the flags or only the offsets differ it does not fail
\* and goes on to the target zone.
C22_SkippedWhenFlagAndOffsetDiffer ==
    SourceResolved =>
        /\ outcome.trace.beforeTime
             = InSourceZone(outcome.trace.sourceTime.ts - 60)
        /\ outcome.trace.afterTime
             = InSourceZone(outcome.trace.sourceTime.ts + 60)
        /\ Failed("SKIPPED_TIME") <=> (FlagsDiffer /\ OffsetsDiffer)
        /\ ~(FlagsDiffer /\ OffsetsDiffer) =>
              /\ "setZone" \in Calls
              /\ outcome.kind = "result"

\* C22's case: on the day Casablanca's clocks go back without a
\* daylight-saving flag, the offsets of the neighbours of the source instant
\* differ, their flags do not, and the call has gone on to a result
C22_Witness ==
    /\ SourceResolved
    /\ args.from_timezone = Str(tzCasablanca)
    /\ Today = DayOfYear(3, 10)
    /\ OffsetsDiffer
    /\ ~FlagsDiffer
    /\ "setZone" \in Calls
    /\ Succeeded

\* C23: every failure of convertTime has a kind among INVALID_TIMEZONE,
\* INVALID_TIME_FORMAT, SKIPPED_TIME, CONVERSION_FAILED and SYSTEM_ERROR; no
\* call ever ends with AMBIGUOUS_TIME or INVALID_TIMEZONE_FORMAT, also when
\* the requested time is in a repeated hour.
C23_FailureKinds ==
    (Called /\ ~Succeeded) =>
        /\ outcome.kind = "ConversionError"
        /\ outcome.type \in {"INVALID_TIMEZONE", "INVALID_TIME_FORMAT",
                              "SKIPPED_TIME", "CONVERSION_FAILED",
                              "SYSTEM_ERROR"}

\* the daylight-saving flag of the source zone is the same on both sides of
\* every transition of the zone
FlagUnchanged ==
    \A t \in TransitionsOf(SourceZone) :
        isInDST(InSourceZone(t - 1)) = isInDST(InSourceZone(t))

\* the time of day of the source instant on the clocks of the source zone
SourceMinutes ==
    60 * dtHour(outcome.trace.sourceTime) + dtMinute(outcome.trace.sourceTime)

\* C26: when the requested time falls in a gap made by an offset change
\* that leaves the zone's daylight-saving flag as it was, convertTime does
\* not fail: the result's source.time repeats the requested time, which does
\* not exist, while converted_time and target.time are the time of day of
\* the shifted instant the library resolved, so that source.time is not the
\* time of day of the source instant.
C26_UnflaggedGapAccepted ==
    (ValidRequest /\ RequestedSkipped /\ FlagUnchanged) =>
        /\ Succeeded
        /\ outcome.result.source.time = args.time
        /\ SourceMinutes # RequestedMinutes
        /\ outcome.trace.sourceTime.ts
             \notin CivilInstants(SourceZone, RequestedLocalTS)
        /\ outcome.trace.targetTime.ts = outcome.trace.sourceTime.ts
        /\ outcome.result.converted_time = outcome.result.target.time
        /\ TimeMinutes(outcome.result.converted_time)
             = (outcome.trace.sourceTime.ts
                + zoneOffset(normalizeZone(args.to_timezone),
                             outcome.trace.sourceTime.ts)) % MinutesPerDay

\* C26's case: 02:30 on the day Casablanca's clocks go from 02:00 to 03:00
\* has been converted to UTC, and the source instant is 03:30 in Casablanca
C26_Witness ==
    /\ Succeeded
    /\ args = [time |-> Str(HHMM(2, 30)), from_timezone |-> Str(tzCasablanca),
               to_timezone |-> Str(tzUTC)]
    /\ Today = DayOfYear(4, 14)
    /\ RequestedSkipped
    /\ outcome.result.source.time = Str(HHMM(2, 30))
    /\ SourceMinutes = 3 * 60 + 30
    /\ outcome.result.converted_time = HHMM(2, 30)

-----------------------------------------------------------------------------
(* Properties of the HTTP transport *)

\* handleRequest has answered a request
Answered == request # NoRequest

\* the request is a POST to /convert with a JSON content type
ConvertRequest ==
    /\ request.method = "POST"
    /\ request.url = "/convert"
    /\ contentTypeIsJson(request.contentType)

\* the payload is a JSON value that lacks one of the three fields
FieldMissing ==
    /\ request.payload.json \in {"number", "object"}
    /\ \/ request.payload.time = Undefined
       \/ request.payload.from_timezone = Undefined
       \/ request.payload.to_timezone = Undefined

\* C17: the transport answers with status 400, before convertTime is called,
\* every POST /convert whose payload is not well-formed JSON or lacks time,
\* from_timezone or to_timezone, the error of the missing-field response
\* being "Missing required fields: ..."; convertTime is only ever called
\* with a request that has all three fields.
C17_RejectedBeforeCore ==
    Answered =>
        /\ (ConvertRequest /\ request.payload.json \in {"malformed", "null"}) =>
              /\ response.status = 400
              /\ ~Called
        /\ (ConvertRequest /\ FieldMissing) =>
              /\ response.status = 400
              /\ response.body.error[1]
                   = "Missing required fields: time, from_timezone, to_timezone"
              /\ ~Called
        /\ Called =>
              /\ args.time # Undefined
              /\ args.from_timezone # Undefined
              /\ args.to_timezone # Undefined
              /\ args.time = request.payload.time
              /\ args.from_timezone = request.payload.from_timezone
              /\ args.to_timezone = request.payload.to_timezone

\* C17's case: a payload with a time and a source zone and no target zone
\* has been answered
C17_Witness ==
    /\ Answered
    /\ ConvertRequest
    /\ request.payload
         = Payload("object", Str(HHMM(14, 30)), Str(tzNewYork), Undefined)
    /\ response.status = 400
    /\ ~Called

\* C18: a POST /convert with a JSON content type and a complete body is
\* answered with status 200 and the result unchanged exactly when
\* convertTime returns a result, and with status 400 and the error's message
\* and type whenever convertTime fails with a ConversionError of any kind,
\* SYSTEM_ERROR included; status 500 is only for errors that are no
\* ConversionError.
C18_StatusOfOutcome ==
    Answered =>
        /\ response.status = 200 <=> Succeeded
        /\ Succeeded =>
              /\ response.body.kind = "result"
              /\ response.body.result = outcome.result
        /\ outcome.kind = "ConversionError" =>
              /\ response.status = 400
              /\ response.body.kind = "error"
              /\ response.body.error = outcome.message
              /\ response.body.type = outcome.type
        /\ response.status = 500 => outcome.kind = "TypeError"
        /\ outcome.kind = "TypeError" => response.status = 500

\* C18's case: convertTime failed with SYSTEM_ERROR and the answer is 400
C18_Witness ==
    /\ Answered
    /\ Failed("SYSTEM_ERROR")
    /\ response.status = 400
    /\ response.body.type = "SYSTEM_ERROR"

\* C19: a rejection by the transport (malformed JSON, a missing field, an
\* unsupported method, path or content type) never has the status and the
\* type of a failure of convertTime, which are 400 and a ConversionError
\* type, so that a client can tell the two apart.
C19_TransportDistinct ==
    (Answered /\ ~Called) =>
        ~(response.status = 400 /\ response.body.type \in ConversionErrorType)

-----------------------------------------------------------------------------
(* Properties of the MCP tool handler *)

\* the tool handler has served a call
Served25 == toolCall # NoToolCall

\* one of the three fields is missing, empty or not a string
BadField ==
    \E v \in {toolCall.time, toolCall.from_timezone, toolCall.to_timezone} :
        v = Undefined \/ v.t # "str" \/ v.s = <<>>

\* C25: in the MCP tool handler a call that names another tool than
\* convert_timezone raises MethodNotFound without a call of convertTime; a
\* missing, empty or non-string time, from_timezone or to_timezone raises
\* InvalidParams without a call of convertTime; a ConversionError of
\* convertTime comes back as a tool result with isError true that carries
\* the message and the kind; every other error goes on as an error and is
\* never made a successful result.
C25_ToolHandler ==
    Served25 =>
        /\ toolCall.name # "convert_timezone" =>
              /\ toolReply.kind = "McpError"
              /\ toolReply.code = "MethodNotFound"
              /\ ~Called
        /\ (toolCall.name = "convert_timezone" /\ BadField) =>
              /\ toolReply.kind = "McpError"
              /\ toolReply.code = "InvalidParams"
              /\ ~Called
        /\ outcome.kind = "ConversionError" =>
              /\ toolReply.kind = "result"
              /\ toolReply.isError
              /\ toolReply.message = outcome.message
              /\ toolReply.type = outcome.type
        /\ (toolReply.kind = "result" /\ ~toolReply.isError) => Succeeded

-----------------------------------------------------------------------------
(* Properties of requests in flight *)

\* C21: conversions in flight do not interfere: however the body chunks and
\* the handler steps of the requests interleave, a step taken for one
\* request changes nothing of another, and what the handler does for a
\* request, its response included, is what handleRequest does for the same
\* request alone at the clock reading of that step.
C21_NoInterference ==
    [][ \A c \in Conns :
          /\ conns'[c] # conns[c] =>
                \A d \in Conns \ {c} : conns'[d] = conns[d]
          /\ conns'[c].handled # conns[c].handled =>
                conns'[c].handled = handleRequest(conns'[c].req)
          /\ conns'[c].pc = "answered" =>
                conns'[c].response = conns'[c].handled.response ]_vars

\* C21's case: the same request, 02:30 in New York, is on both connections;
\* one was converted on the day of the transition and answered with
\* SKIPPED_TIME, the other on a later day and answered with a result
C21_Witness ==
    /\ conns["c1"].req = conns["c2"].req
    /\ conns["c1"].req.payload
         = Payload("object", Str(HHMM(2, 30)), Str(tzNewYork), Str(tzUTC))
    /\ conns["c1"].pc = "answered"
    /\ conns["c2"].pc = "answered"
    /\ conns["c1"].response.status = 400
    /\ conns["c1"].response.body.type = "SKIPPED_TIME"
    /\ conns["c2"].response.status = 200

\* C24: every request whose body stream ends gets exactly one response:
\* each path of handleRequest writes one status and body and none writes
\* two, a request that is answered without its body being read is answered
\* at once, and after the end of the stream the response is eventually
\* written; only a request whose stream fails or never ends has no answer.
C24_ExactlyOneResponse ==
    /\ [](\A c \in Conns :
            /\ conns[c].writes <= 1
            /\ conns[c].pc = "answered" <=> conns[c].writes = 1
            /\ conns[c].writes = 1 =>
                  conns[c].response.status \in {200, 204, 400, 404, 500}
            /\ (conns[c].pc # "free" /\ ~ReadsBody(conns[c].req)) =>
                  conns[c].pc = "answered"
            /\ conns[c].pc = "stalled" =>
                  (~conns[c].ended /\ conns[c].writes = 0))
    /\ \A c \in Conns : conns[c].ended ~> conns[c].pc = "answered"

\* C24's case: a request that made convertTime raise a TypeError has been
\* answered once, with status 500, after its stream ended, and the stream
\* of the other request has failed
C24_Witness ==
    /\ conns["c1"].ended
    /\ conns["c1"].pc = "answered"
    /\ conns["c1"].writes = 1
    /\ conns["c1"].response.status = 500
    /\ conns["c2"].pc = "stalled"
    /\ conns["c2"].writes = 0

=============================================================================
